---------------------------- MODULE Spec2Model ----------------------------
(***************************************************************************)
(* The reconciliation engine of pkg/controller: a rate limited work queue  *)
(* shared by event producers, timers and a pool of worker goroutines that  *)
(* feed keys to a Reconciler, together with Run's shutdown sequence.       *)
(*                                                                         *)
(* The work queue (workqueue.RateLimitingInterface) is held by Impl but    *)
(* implemented outside the controller file; its operations are modelled    *)
(* from the documented contract (queue / dirty / processing sets, a set of *)
(* pending delayed entries and a per-key failure count).  Every operation  *)
(* of the queue is atomic (one lock); the controller code between two      *)
(* queue calls is not, so each worker is a small program counter machine.  *)
(***************************************************************************)
EXTENDS Naturals, Integers, Sequences, FiniteSets, TLC

\* ---- bounds of the model ------------------------------------------------
MaxThreadiness == 2
MaxFailures == 1
MaxAdds == 2
MaxCalls == 3
MaxDebt == 2
TimedThreadiness == 1
FairThreadiness == 1
MaxInformers == 3
MaxStore == 2
MaxOwners == 2
MaxEvents == 2
MaxBinds == 2

\* ---- program constants (scaled): DefaultControllerRateLimiter ------------
BaseDelay == 1
MaxDelay == 2
BucketBurst == 1
\* time.Second, the base interval of GlobalResync, in ticks
BaseInterval == 2

\* ResourceKeys (types.NamespacedName), in their string form.
Keys == {"ns/a", "ns/b"}
NoKey == "none"
Delays == {0, 1}
TimedDelays == {0, 1, 2}
Errors == {"nil", "transient", "permanent"}

\* The scheduler extender's bind request: pod names, node names (a node's
\* LocalVolume has the node's name), names of persistent volume claims.
Pods == {"p1", "p2"}
Nodes == {"n1", "n2"}
PVCs == {"pvc-a", "pvc-b"}

VARIABLES
    queue,          \* WorkQueue: ordered keys ready to be pulled
    dirty,          \* WorkQueue: keys requested and not yet pulled
    processing,     \* WorkQueue: keys checked out by a worker
    shuttingDown,   \* WorkQueue: ShutDown has been called
    waiting,        \* WorkQueue: keys with a pending delayed entry
    due,            \* WorkQueue: per key, the time left before its delayed
                    \*   entry fires (0: no entry, or the entry is due)
    failures,       \* rate limiter: per-key failure count
    threadiness,    \* Run's first argument
    stopCh,         \* TRUE once the stop channel is closed
    runPc,          \* where Run is
    pc,             \* per worker: where processNextWorkItem is
    item,           \* per worker: the key obtained from Get
    err,            \* per worker: what Reconcile returned
    did,            \* per worker: the queue call made for the result
    cleared,        \* per worker: the Forget after its successful Reconcile
                    \*   erased a failure count of one or more
    watched,        \* the key whose EnqueueKey calls are counted (any key)
    adds,           \* EnqueueKey(watched) calls since watched was last pulled:
                    \*   <<made before ShutDown, made after ShutDown>>
    drained,        \* some Get returned a key after ShutDown
    sched,          \* the producers' clock for the watched key: the time
                    \*   that must still pass before a Get may return it when
                    \*   EnqueueKeyAfter calls alone have scheduled it (>= 1),
                    \*   0 once an EnqueueKeyAfter with no delay asked for it
                    \*   and no Get has returned it since, -1 otherwise
    tokens,         \* rate limiter: tokens left in the overall bucket
    lastDelay,      \* per key: the delay of its last When since its Forget
    seen,           \* per failure count: the first delay When gave at it
    informers,      \* StartInformers: how many informers were passed
    started,        \* StartInformers: indexes whose Run goroutine was started
    synced,         \* indexes of the informers whose HasSynced() is true
    siStop,         \* StartInformers: its stop channel is closed
    siPc,           \* where StartInformers is
    siIdx,          \* StartInformers: the loop index i
    siErr,          \* StartInformers: -1 for nil, else the index in the error
    stoppedEarly,   \* the stop channel was closed before StartInformers
                    \*   returned, at a moment when some informer had not synced
    rsPc,           \* where FilteredGlobalResync is
    rsList,         \* FilteredGlobalResync: list, the objects of the store
    rsPass,         \* the objects for which the filter f returns true
    rsIdx,          \* FilteredGlobalResync: position of the range loop
    rsCalls,        \* per object: EnqueueAfter calls made for it
    rsDelay,        \* the delay passed to the last EnqueueAfter (-1: none yet)
    ecoObj,         \* the argument of the last EnqueueControllerOf call
    ecoKey,         \* the key that call passed to EnqueueKey (NoKey: no call)
    ecoCalls,       \* how many EnqueueControllerOf calls were made
    bhPc,           \* where BindHandler is
    bhArgs,         \* BindHandler: args (PodName, Node)
    bhNames,        \* bind: pvcNames
    bhLv,           \* bind: lv.Status.PreAllocated as the lister returned it
    bhLog,          \* the API calls of the current BindHandler call, in order
    bhResult,       \* the ExtenderBindingResult returned
    bhCalls,        \* how many BindHandler calls were made
    lvStore,        \* per node: Status.PreAllocated of its LocalVolume
    bound           \* per pod: the node the Bind API assigned it to

vars == <<queue, dirty, processing, shuttingDown, waiting, due, failures,
          threadiness, stopCh, runPc, pc, item, err, did, cleared,
          watched, adds, drained, sched, tokens, lastDelay, seen,
          informers, started, synced, siStop, siPc, siIdx, siErr, stoppedEarly,
          rsPc, rsList, rsPass, rsIdx, rsCalls, rsDelay, ecoObj, ecoKey,
          ecoCalls, bhPc, bhArgs, bhNames, bhLv, bhLog, bhResult, bhCalls,
          lvStore, bound>>

queueVars  == <<queue, dirty, processing, shuttingDown, waiting, failures>>
workerVars == <<pc, item, err, did, cleared>>
ghostVars  == <<watched, adds, drained>>
clockVars  == <<due, sched>>
runVars    == <<threadiness, stopCh, runPc>>
limiterVars == <<tokens, lastDelay, seen>>
informerVars == <<informers, started, synced, siStop, siPc, siIdx, siErr,
                  stoppedEarly>>
resyncVars == <<rsPc, rsList, rsPass, rsIdx, rsCalls, rsDelay>>
ownerVars == <<ecoObj, ecoKey, ecoCalls>>
bindVars == <<bhPc, bhArgs, bhNames, bhLv, bhLog, bhResult, bhCalls, lvStore,
              bound>>
helperVars == <<limiterVars, informerVars, resyncVars, ownerVars, bindVars>>
engineVars == <<queueVars, workerVars, runVars, ghostVars, clockVars>>

Workers == 1..threadiness

\* ---- helpers --------------------------------------------------------------
Min(a, b) == IF a <= b THEN a ELSE b

Max(a, b) == IF a >= b THEN a ELSE b

RECURSIVE Pow2(_)
Pow2(n) == IF n = 0 THEN 1 ELSE 2 * Pow2(n - 1)

Count(s, k) == Cardinality({i \in DOMAIN s : s[i] = k})

InQueue(k) == \E i \in DOMAIN queue : queue[i] = k


\* ---- the work queue (workqueue.RateLimitingInterface) ---------------------
\* Each operator states the new value of the queue fields it may write; the
\* action that calls it leaves the others unchanged.

QLen == Len(queue)

ShuttingDown == shuttingDown

\* Add: dropped once shutting down or when already dirty; otherwise marked
\* dirty and, unless a worker holds it, appended to the ready queue.
Add(k) ==
    IF shuttingDown \/ k \in dirty
    THEN queue' = queue /\ dirty' = dirty
    ELSE /\ dirty' = dirty \cup {k}
         /\ queue' = IF k \in processing THEN queue ELSE Append(queue, k)

\* AddAfter: dropped once shutting down; Add when the delay is not positive;
\* otherwise one pending delayed entry per key.
AddAfter(k, d) ==
    IF shuttingDown
    THEN queue' = queue /\ dirty' = dirty /\ waiting' = waiting
    ELSE IF d <= 0
         THEN Add(k) /\ waiting' = waiting
         ELSE /\ queue' = queue /\ dirty' = dirty
              /\ waiting' = waiting \cup {k}

\* The rate limiter: exponential per-key backoff, capped.
When(k) == Min(BaseDelay * Pow2(failures[k]), MaxDelay)

\* AddRateLimited: AddAfter(k, When(k)); When counts the failure.
AddRateLimited(k) ==
    /\ failures' = [failures EXCEPT ![k] = @ + 1]
    /\ AddAfter(k, When(k))

\* Get returning (k, false): the head of the queue is checked out.
Get(k) ==
    /\ queue # <<>>
    /\ k = Head(queue)
    /\ queue' = Tail(queue)
    /\ processing' = processing \cup {k}
    /\ dirty' = dirty \ {k}

\* Get returning (nil, true): nothing is ready and the queue is shut down.
\* (Get blocks while nothing is ready and the queue is open.)
GetShutdown == queue = <<>> /\ shuttingDown

\* Forget: clears the key's failure history.
Forget(k) == failures' = [failures EXCEPT ![k] = 0]

\* Done: releases the key; a key made dirty meanwhile re-enters the queue.
Done(k) ==
    /\ processing' = processing \ {k}
    /\ queue' = IF k \in dirty THEN Append(queue, k) ELSE queue

ShutDown == shuttingDown' = TRUE

\* A pending delayed entry is due: the queue performs Add.
TimerFire(k) ==
    /\ k \in waiting
    /\ waiting' = waiting \ {k}
    /\ Add(k)
    /\ UNCHANGED <<processing, shuttingDown, failures>>
    /\ UNCHANGED <<workerVars, runVars, ghostVars, helperVars>>

\* ---- producers: the Enqueue API --------------------------------------------
EnqueueKey(k) ==
    /\ k = watched => adds[1] + adds[2] < MaxAdds
    /\ Add(k)
    /\ adds' = IF k # watched THEN adds
               ELSE IF shuttingDown THEN <<adds[1], adds[2] + 1>>
                                    ELSE <<adds[1] + 1, adds[2]>>
    /\ UNCHANGED <<processing, shuttingDown, waiting, failures>>
    /\ UNCHANGED <<workerVars, runVars, watched, drained, helperVars>>

\* Changed EnqueueKeyAfter: a timer of its own instead of WorkQueue.AddAfter, so
\* the entry is scheduled whatever the state of the queue.
EnqueueKeyAfter_OwnTimer(k, delay) ==
    /\ IF delay <= 0
       THEN Add(k) /\ waiting' = waiting
       ELSE /\ queue' = queue /\ dirty' = dirty
            /\ waiting' = waiting \cup {k}
    /\ UNCHANGED <<processing, shuttingDown, failures>>
    /\ UNCHANGED <<workerVars, runVars, watched, adds, drained, helperVars>>

\* Changed EnqueueKeyAfter: the delay is dropped (WorkQueue.Add instead of
\* WorkQueue.AddAfter).
EnqueueKeyAfter_NoDelay(k, delay) ==
    /\ Add(k)
    /\ UNCHANGED <<processing, shuttingDown, waiting, failures>>
    /\ UNCHANGED <<workerVars, runVars, watched, adds, drained, helperVars>>

EnqueueKeyAfter(k, delay) ==
    /\ AddAfter(k, delay)
    /\ UNCHANGED <<processing, shuttingDown, failures>>
    /\ UNCHANGED <<workerVars, runVars, watched, adds, drained, helperVars>>

\* ---- Run ---------------------------------------------------------------------
\* The stop channel is closed by the caller of Run.
StopSignal ==
    /\ ~stopCh
    /\ stopCh' = TRUE
    /\ UNCHANGED <<queueVars, workerVars, threadiness, runPc, ghostVars, helperVars>>

\* <-stopCh returns; the deferred function calls WorkQueue.ShutDown().
RunShutDown ==
    /\ runPc = "running"
    /\ stopCh
    /\ ShutDown
    /\ runPc' = "drain"
    /\ UNCHANGED <<queue, dirty, processing, waiting, failures>>
    /\ UNCHANGED <<workerVars, threadiness, stopCh, ghostVars, helperVars>>

\* for c.WorkQueue.Len() > 0 { time.Sleep(100ms) }: the length is not zero, Run
\* sleeps and looks again.
RunSleep ==
    /\ runPc = "drain"
    /\ QLen > 0
    /\ runPc' = "sleep"
    /\ UNCHANGED <<queueVars, workerVars, threadiness, stopCh, ghostVars, helperVars>>

RunWake ==
    /\ runPc = "sleep"
    /\ runPc' = "drain"
    /\ UNCHANGED <<queueVars, workerVars, threadiness, stopCh, ghostVars, helperVars>>

\* The loop is left only when the length is zero.
RunDrain ==
    /\ runPc = "drain"
    /\ ~(QLen > 0)
    /\ runPc' = "join"
    /\ UNCHANGED <<queueVars, workerVars, threadiness, stopCh, ghostVars, helperVars>>

\* Changed RunJoin: sg.Wait() is missing; Run returns once the queue is drained.
RunJoin_NoWait ==
    /\ runPc = "join"
    /\ runPc' = "returned"
    /\ UNCHANGED <<queueVars, workerVars, threadiness, stopCh, ghostVars, helperVars>>

\* defer sg.Wait(): every worker goroutine has returned; Run returns.
RunJoin ==
    /\ runPc = "join"
    /\ \A w \in Workers : pc[w] = "exited"
    /\ runPc' = "returned"
    /\ UNCHANGED <<queueVars, workerVars, threadiness, stopCh, ghostVars, helperVars>>

\* ---- a worker: for c.processNextWorkItem() {} --------------------------------
IsPermanentError(e) == e = "permanent"

\* Changed ProcessGet: the worker leaves its loop as soon as the queue is
\* shutting down (ShuttingDown() instead of Get's second result).
ProcessGet_ExitWhenShuttingDown(w) ==
    /\ pc[w] = "get"
    /\ \/ /\ ~shuttingDown
          /\ \E k \in Keys : Get(k) /\ item' = [item EXCEPT ![w] = k]
          /\ pc' = [pc EXCEPT ![w] = "reconcile"]
          /\ adds' = IF Head(queue) = watched THEN <<0, 0>> ELSE adds
          /\ drained' = (drained \/ shuttingDown)
       \/ /\ shuttingDown
          /\ pc' = [pc EXCEPT ![w] = "exited"]
          /\ UNCHANGED <<queue, processing, dirty, item, adds, drained>>
    /\ UNCHANGED <<shuttingDown, waiting, failures, err, did, cleared, runVars, watched, helperVars>>

\* Changed ProcessGet: WorkQueue.Done(key) is called at once instead of being
\* deferred, so the key is released while Reconcile still runs.
ProcessGet_DoneNotDeferred(w) ==
    /\ pc[w] = "get"
    /\ \/ /\ queue # <<>>
          /\ queue' = Tail(queue)
          /\ dirty' = dirty \ {Head(queue)}
          /\ processing' = processing \ {Head(queue)}
          /\ item' = [item EXCEPT ![w] = Head(queue)]
          /\ pc' = [pc EXCEPT ![w] = "reconcile"]
          /\ adds' = IF Head(queue) = watched THEN <<0, 0>> ELSE adds
          /\ drained' = (drained \/ shuttingDown)
       \/ /\ GetShutdown
          /\ pc' = [pc EXCEPT ![w] = "exited"]
          /\ UNCHANGED <<queue, processing, dirty, item, adds, drained>>
    /\ UNCHANGED <<shuttingDown, waiting, failures, err, did, cleared, runVars, watched, helperVars>>

\* obj, shutdown := c.WorkQueue.Get(); if shutdown { return false }; the key is
\* held, with Done deferred, while Reconcile runs.
ProcessGet(w) ==
    /\ pc[w] = "get"
    /\ \/ /\ \E k \in Keys : Get(k) /\ item' = [item EXCEPT ![w] = k]
          /\ pc' = [pc EXCEPT ![w] = "reconcile"]
          /\ adds' = IF Head(queue) = watched THEN <<0, 0>> ELSE adds
          /\ drained' = (drained \/ shuttingDown)
       \/ /\ GetShutdown
          /\ pc' = [pc EXCEPT ![w] = "exited"]
          /\ UNCHANGED <<queue, processing, dirty, item, adds, drained>>
    /\ UNCHANGED <<shuttingDown, waiting, failures, err, did, cleared, runVars, watched, helperVars>>

\* Changed Branch: a successful Reconcile is not followed by Forget(key).
Branch_NoForgetOnSuccess(w, e) ==
    IF e # "nil" /\ ~IsPermanentError(e) /\ ~ShuttingDown
    THEN /\ pc' = [pc EXCEPT ![w] = "requeue"]
         /\ UNCHANGED <<failures, did, cleared>>
    ELSE /\ IF e = "nil" THEN failures' = failures ELSE Forget(item[w])
         /\ did' = [did EXCEPT ![w] = IF e = "nil" THEN "none" ELSE "Forget"]
         /\ cleared' = cleared
         /\ pc' = [pc EXCEPT ![w] = "done"]

\* What follows Reconcile's return: Forget on success; on an error handleErr,
\* which forgets a permanent error or when ShuttingDown(), and otherwise goes on
\* to AddRateLimited.
Branch(w, e) ==
    IF e # "nil" /\ ~IsPermanentError(e) /\ ~ShuttingDown
    THEN /\ pc' = [pc EXCEPT ![w] = "requeue"]
         /\ UNCHANGED <<failures, did, cleared>>
    ELSE /\ Forget(item[w])
         /\ did' = [did EXCEPT ![w] = "Forget"]
         /\ cleared' = [cleared EXCEPT ![w] = (e = "nil" /\ failures[item[w]] >= 1)]
         /\ pc' = [pc EXCEPT ![w] = "done"]

\* Changed Reconcile: handleErr requeues every error, permanent ones too.
Reconcile_RetryAll(w, e) ==
    /\ pc[w] = "reconcile"
    /\ e = "transient" => failures[item[w]] < MaxFailures
    /\ err' = [err EXCEPT ![w] = e]
    /\ IF e # "nil" /\ ~ShuttingDown
       THEN /\ pc' = [pc EXCEPT ![w] = "requeue"]
            /\ UNCHANGED <<failures, did, cleared>>
       ELSE /\ Forget(item[w])
            /\ did' = [did EXCEPT ![w] = "Forget"]
            /\ cleared' = [cleared EXCEPT ![w] = (e = "nil" /\ failures[item[w]] >= 1)]
            /\ pc' = [pc EXCEPT ![w] = "done"]
    /\ UNCHANGED <<queue, dirty, processing, shuttingDown, waiting>>
    /\ UNCHANGED <<item, runVars, ghostVars, helperVars>>

\* Changed Reconcile: handleErr does not look at ShuttingDown().
Reconcile_NoShutdownCheck(w, e) ==
    /\ pc[w] = "reconcile"
    /\ e = "transient" => failures[item[w]] < MaxFailures
    /\ err' = [err EXCEPT ![w] = e]
    /\ IF e # "nil" /\ ~IsPermanentError(e)
       THEN /\ pc' = [pc EXCEPT ![w] = "requeue"]
            /\ UNCHANGED <<failures, did, cleared>>
       ELSE /\ Forget(item[w])
            /\ did' = [did EXCEPT ![w] = "Forget"]
            /\ cleared' = [cleared EXCEPT ![w] = (e = "nil" /\ failures[item[w]] >= 1)]
            /\ pc' = [pc EXCEPT ![w] = "done"]
    /\ UNCHANGED <<queue, dirty, processing, shuttingDown, waiting>>
    /\ UNCHANGED <<item, runVars, ghostVars, helperVars>>

\* c.Reconciler.Reconcile(ctx, keyStr) returns e (nil, an error or a permanent
\* error) and the worker branches on it.  The return itself touches nothing
\* shared; the first shared access after it is handleErr's ShuttingDown().
Reconcile(w, e) ==
    /\ pc[w] = "reconcile"
    /\ e = "transient" => failures[item[w]] < MaxFailures
    /\ err' = [err EXCEPT ![w] = e]
    /\ Branch(w, e)
    /\ UNCHANGED <<queue, dirty, processing, shuttingDown, waiting>>
    /\ UNCHANGED <<item, runVars, ghostVars, helperVars>>

\* Changed Requeue: handleErr logs the error and does not requeue the key.
Requeue_Dropped(w) ==
    /\ pc[w] = "requeue"
    /\ did' = [did EXCEPT ![w] = "none"]
    /\ cleared' = cleared
    /\ pc' = [pc EXCEPT ![w] = "done"]
    /\ UNCHANGED <<queueVars, item, err, runVars, ghostVars, helperVars>>

\* handleErr: c.WorkQueue.AddRateLimited(key)
Requeue(w) ==
    /\ pc[w] = "requeue"
    /\ AddRateLimited(item[w])
    /\ did' = [did EXCEPT ![w] = "AddRateLimited"]
    /\ cleared' = cleared
    /\ pc' = [pc EXCEPT ![w] = "done"]
    /\ UNCHANGED <<processing, shuttingDown>>
    /\ UNCHANGED <<item, err, runVars, watched, adds, drained, helperVars>>

\* Changed DeferredDone: Done(key) runs twice (an explicit call besides the
\* deferred one).
DeferredDone_Twice(w) ==
    /\ pc[w] = "done"
    /\ processing' = processing \ {item[w]}
    /\ queue' = IF item[w] \in dirty
                THEN Append(Append(queue, item[w]), item[w]) ELSE queue
    /\ pc' = [pc EXCEPT ![w] = "get"]
    /\ item' = [item EXCEPT ![w] = NoKey]
    /\ err' = [err EXCEPT ![w] = "nil"]
    /\ did' = [did EXCEPT ![w] = "none"]
    /\ cleared' = [cleared EXCEPT ![w] = FALSE]
    /\ UNCHANGED <<dirty, shuttingDown, waiting, failures>>
    /\ UNCHANGED <<runVars, ghostVars, helperVars>>

\* Changed DeferredDone: the deferred Done(key) is missing.
DeferredDone_Missing(w) ==
    /\ pc[w] = "done"
    /\ pc' = [pc EXCEPT ![w] = "get"]
    /\ item' = [item EXCEPT ![w] = NoKey]
    /\ err' = [err EXCEPT ![w] = "nil"]
    /\ did' = [did EXCEPT ![w] = "none"]
    /\ cleared' = [cleared EXCEPT ![w] = FALSE]
    /\ UNCHANGED <<queueVars, runVars, ghostVars, helperVars>>

\* defer c.WorkQueue.Done(key); processNextWorkItem returns true.
DeferredDone(w) ==
    /\ pc[w] = "done"
    /\ Done(item[w])
    /\ pc' = [pc EXCEPT ![w] = "get"]
    /\ item' = [item EXCEPT ![w] = NoKey]
    /\ err' = [err EXCEPT ![w] = "nil"]
    /\ did' = [did EXCEPT ![w] = "none"]
    /\ cleared' = [cleared EXCEPT ![w] = FALSE]
    /\ UNCHANGED <<dirty, shuttingDown, waiting, failures>>
    /\ UNCHANGED <<runVars, ghostVars, helperVars>>

\* ---- Run launching its workers ------------------------------------------------
\* Changed RunLaunch: the loop runs once more than threadiness (i <= threadiness).
RunLaunch_OneMore ==
    /\ runPc = "starting"
    /\ IF Len(pc) <= threadiness
       THEN /\ pc' = Append(pc, "get")
            /\ item' = Append(item, NoKey)
            /\ err' = Append(err, "nil")
            /\ did' = Append(did, "none")
            /\ cleared' = Append(cleared, FALSE)
            /\ runPc' = runPc
       ELSE /\ runPc' = "running"
            /\ UNCHANGED workerVars
    /\ UNCHANGED <<queueVars, threadiness, stopCh, ghostVars, helperVars>>

\* for i := 0; i < threadiness; i++ { sg.Add(1); go func() { ... }() }: one
\* more worker goroutine is started, or the loop ends and Run waits on stopCh.
RunLaunch ==
    /\ runPc = "starting"
    /\ IF Len(pc) < threadiness
       THEN /\ pc' = Append(pc, "get")
            /\ item' = Append(item, NoKey)
            /\ err' = Append(err, "nil")
            /\ did' = Append(did, "none")
            /\ cleared' = Append(cleared, FALSE)
            /\ runPc' = runPc
       ELSE /\ runPc' = "running"
            /\ UNCHANGED workerVars
    /\ UNCHANGED <<queueVars, threadiness, stopCh, ghostVars, helperVars>>

\* The worker goroutines that exist.
Launched == DOMAIN pc

\* ---- a panic in Reconcile -------------------------------------------------------
\* Nothing recovers a panic of the worker goroutine (HandleCrash is deferred in
\* Run's goroutine, not in the worker's): the deferred calls of the worker run
\* and the process ends.
Alive == runPc # "crashed"

\* c.Reconciler.Reconcile panics: processNextWorkItem starts to unwind.
ReconcilePanics(w) ==
    /\ pc[w] = "reconcile"
    /\ err' = [err EXCEPT ![w] = "panic"]
    /\ pc' = [pc EXCEPT ![w] = "panic"]
    /\ UNCHANGED <<queueVars, item, did, cleared, runVars, ghostVars, helperVars>>

\* Changed PanicDone: Done(key) is not deferred, so a panic skips it.
PanicDone_Skipped(w) ==
    /\ pc[w] = "panic"
    /\ pc' = [pc EXCEPT ![w] = "crashed"]
    /\ runPc' = "crashed"
    /\ UNCHANGED <<queueVars, item, err, did, cleared, threadiness, stopCh>>
    /\ UNCHANGED <<ghostVars, helperVars>>

\* The unwinding runs defer c.WorkQueue.Done(key), then the goroutine's
\* deferred sg.Done(), and the process ends with the panic.
PanicDone(w) ==
    /\ pc[w] = "panic"
    /\ Done(item[w])
    /\ pc' = [pc EXCEPT ![w] = "crashed"]
    /\ runPc' = "crashed"
    /\ UNCHANGED <<dirty, shuttingDown, waiting, failures>>
    /\ UNCHANGED <<item, err, did, cleared, threadiness, stopCh>>
    /\ UNCHANGED <<ghostVars, helperVars>>

\* ---- a queue item that is not a key ---------------------------------------------
\* WorkQueue is an exported field of Impl and its items are interface{} values:
\* code outside the engine can add an item whose type is not
\* types.NamespacedName.  One such item stands for them all.
Malformed == "not-a-key"

\* c.WorkQueue.Add(x) by a caller that bypasses EnqueueKey, x not a key.
RawAdd ==
    /\ Add(Malformed)
    /\ UNCHANGED <<processing, shuttingDown, waiting, failures>>
    /\ UNCHANGED <<workerVars, runVars, ghostVars, helperVars>>

\* Changed ProcessGetMalformed: the assertion is the checked form
\* (key, ok := obj.(types.NamespacedName)) and an item that fails it is
\* forgotten, released with Done and passed over.
ProcessGetMalformed_Swallowed(w) ==
    /\ pc[w] = "get"
    /\ queue # <<>> /\ Head(queue) = Malformed
    /\ queue' = Tail(queue)
    /\ dirty' = dirty \ {Malformed}
    /\ did' = [did EXCEPT ![w] = "Forget"]
    /\ UNCHANGED <<processing, shuttingDown, waiting, failures>>
    /\ UNCHANGED <<pc, item, err, cleared, runVars, ghostVars, helperVars>>

\* Get hands the worker the item; key := obj.(types.NamespacedName) panics.
\* Done is not yet deferred, key was never assigned, nothing recovers the panic
\* in the worker goroutine: the item stays in processing and the process ends.
ProcessGetMalformed(w) ==
    /\ pc[w] = "get"
    /\ Get(Malformed)
    /\ pc' = [pc EXCEPT ![w] = "crashed"]
    /\ runPc' = "crashed"
    /\ UNCHANGED <<shuttingDown, waiting, failures>>
    /\ UNCHANGED <<item, err, did, cleared, threadiness, stopCh>>
    /\ UNCHANGED <<ghostVars, helperVars>>

\* ---- the clock of the delaying queue ------------------------------------------
\* Spec leaves time out: a delayed entry fires at some later moment.  TimedSpec
\* below runs the same actions against a clock: every action is joined with what
\* it does to the fire-times of the pending entries (due) and to the producers'
\* clock for the watched key (sched).

\* The fire-time of k's delayed entry after scheduling it d from now: a key has
\* one entry, and an entry already pending is only ever moved earlier.
Schedule(k, d) ==
    [due EXCEPT ![k] = IF k \in waiting THEN Min(@, d) ELSE d]

\* The producers' clock after a call AddAfter(k, d) (EnqueueKeyAfter, or the
\* AddAfter inside AddRateLimited): a call made during shutdown asks for nothing;
\* one with no delay asks for the key now; a delayed one starts the clock if
\* nothing else has scheduled the key, and can only shorten a clock that runs.
AfterCalled(k, d) ==
    IF k # watched \/ shuttingDown THEN sched
    ELSE IF d <= 0 THEN 0
    ELSE IF sched >= 1 THEN Min(sched, d)
    ELSE IF sched = 0 THEN 0
    ELSE IF k \notin dirty /\ k \notin waiting THEN d
    ELSE -1

\* The producers' clock after a call Add(k): the key is no longer scheduled by
\* delayed calls alone.
AddCalled(k) ==
    IF k = watched /\ ~shuttingDown /\ sched >= 1 THEN -1 ELSE sched

\* One unit of time passes: every pending entry not yet due comes nearer.  (An
\* entry that is due may fire late: nothing forces the timer before time moves.)
Tick ==
    /\ \E k \in waiting : due[k] > 0
    /\ due' = [k \in Keys |-> IF due[k] > 0 THEN due[k] - 1 ELSE 0]
    /\ sched' = IF sched >= 2 THEN sched - 1 ELSE IF sched = 1 THEN -1 ELSE sched
    /\ UNCHANGED <<queueVars, workerVars, runVars, ghostVars, helperVars>>

\* WorkQueue.AddAfter(k, d) against the clock: a call the queue accepts with a
\* positive delay sets the fire-time of k's entry.
ClockAfter(k, d) ==
    /\ due' = IF shuttingDown \/ d <= 0 THEN due ELSE Schedule(k, d)
    /\ sched' = AfterCalled(k, d)

\* WorkQueue.Add(k) against the clock.
ClockAdd(k) ==
    /\ due' = due
    /\ sched' = AddCalled(k)

\* WorkQueue.Get against the clock: a Get that returns the watched key answers
\* the request made for it.
ClockGet(w) ==
    /\ due' = due
    /\ sched' = IF pc'[w] = "reconcile" /\ item'[w] = watched /\ sched = 0
                THEN -1 ELSE sched

\* The timer of k's entry fires no earlier than its fire-time.
ClockFire(k) ==
    /\ due[k] = 0
    /\ UNCHANGED clockVars

\* ---- StartInformers ------------------------------------------------------------
\* Informers are known by their index in the argument list, 0 .. informers-1.
Informer == 0..(informers - 1)

\* StartInformers(stopCh, informers...) is called with n informers, none of
\* which runs yet.
StartInformers(n) ==
    /\ siPc = "idle"
    /\ informers' = n
    /\ siPc' = "start"
    /\ stoppedEarly' = (siStop /\ n > 0)
    /\ UNCHANGED <<started, synced, siStop, siIdx, siErr>>
    /\ UNCHANGED <<engineVars, limiterVars, resyncVars, ownerVars, bindVars>>

\* for _, informer := range informers { go informer.Run(stopCh) }
StartRun ==
    /\ siPc = "start"
    /\ IF siIdx < informers
       THEN /\ started' = started \cup {siIdx}
            /\ siIdx' = siIdx + 1
            /\ siPc' = siPc
       ELSE /\ started' = started
            /\ siIdx' = 0
            /\ siPc' = "wait"
    /\ UNCHANGED <<informers, synced, siStop, siErr, stoppedEarly>>
    /\ UNCHANGED <<engineVars, limiterVars, resyncVars, ownerVars, bindVars>>

\* An informer that runs completes its initial list: HasSynced() is true from
\* then on.  Run is told to stop through the channel only, so an informer may
\* still complete its sync after the channel is closed.
InformerSyncs(i) ==
    /\ i \in started \ synced
    /\ synced' = synced \cup {i}
    /\ UNCHANGED <<informers, started, siStop, siPc, siIdx, siErr, stoppedEarly>>
    /\ UNCHANGED <<engineVars, limiterVars, resyncVars, ownerVars, bindVars>>

\* The caller closes the stop channel given to StartInformers.
InformerStop ==
    /\ ~siStop
    /\ siStop' = TRUE
    /\ stoppedEarly' = (siPc \notin {"idle", "returned"}
                            /\ \E i \in Informer : i \notin synced)
    /\ UNCHANGED <<informers, started, synced, siPc, siIdx, siErr>>
    /\ UNCHANGED <<engineVars, limiterVars, resyncVars, ownerVars, bindVars>>

\* Changed WaitCall: the result of WaitForCacheSync is not looked at.
WaitCall_Unchecked ==
    /\ siPc = "wait"
    /\ IF siIdx < informers
       THEN siIdx' = siIdx + 1 /\ siPc' = siPc /\ siErr' = siErr
       ELSE siPc' = "returned" /\ siErr' = -1 /\ siIdx' = siIdx
    /\ UNCHANGED <<informers, started, synced, siStop, stoppedEarly>>
    /\ UNCHANGED <<engineVars, limiterVars, resyncVars, ownerVars, bindVars>>

\* for i, informer := range informers: cache.WaitForCacheSync(stopCh,
\* informer.HasSynced) asks HasSynced() once before anything else and returns
\* true if it holds, whatever the stop channel; otherwise it starts polling.
\* After the last informer StartInformers returns nil.
WaitCall ==
    /\ siPc = "wait"
    /\ IF siIdx < informers
       THEN /\ IF siIdx \in synced
               THEN siIdx' = siIdx + 1 /\ siPc' = siPc
               ELSE siIdx' = siIdx /\ siPc' = "poll"
            /\ siErr' = siErr
       ELSE siPc' = "returned" /\ siErr' = -1 /\ siIdx' = siIdx
    /\ UNCHANGED <<informers, started, synced, siStop, stoppedEarly>>
    /\ UNCHANGED <<engineVars, limiterVars, resyncVars, ownerVars, bindVars>>

\* A poll finds HasSynced() true: WaitForCacheSync returns true.
PollSynced ==
    /\ siPc = "poll"
    /\ siIdx \in synced
    /\ siIdx' = siIdx + 1
    /\ siPc' = "wait"
    /\ UNCHANGED <<informers, started, synced, siStop, siErr, stoppedEarly>>
    /\ UNCHANGED <<engineVars, limiterVars, resyncVars, ownerVars, bindVars>>

\* The poll ends on the closed stop channel: WaitForCacheSync returns false and
\* StartInformers returns the error for index i.  (When the channel is closed
\* and HasSynced() is true as well, either of PollSynced and PollStopped can
\* be what happens.)
PollStopped ==
    /\ siPc = "poll"
    /\ siStop
    /\ siPc' = "returned"
    /\ siErr' = siIdx
    /\ UNCHANGED <<informers, started, synced, siStop, siIdx, stoppedEarly>>
    /\ UNCHANGED <<engineVars, limiterVars, resyncVars, ownerVars, bindVars>>

\* ---- GlobalResync / FilteredGlobalResync ----------------------------------------
\* The objects of a store are numbered; the store holds one object per key.
Objects == 1..MaxStore

StoreKeys == <<"ns/a", "ns/b", "ns/c", "ns/d">>

\* types.NamespacedName{Namespace: object.GetNamespace(), Name: object.GetName()}
ObjKey(o) == StoreKeys[o]

\* si.GetStore().List(): the objects of the store, each once, in any order.
StoreLists ==
    {l \in UNION {[1..n -> Objects] : n \in 0..MaxStore} :
        \A i, j \in DOMAIN l : i # j => l[i] # l[j]}

\* Changed Jitter: the duration itself is left out of the result.
Jitter_NoBase(duration, maxFactor) ==
    LET f == IF maxFactor <= 0 THEN 1 ELSE maxFactor
    IN  0..(f * duration - 1)

\* wait.Jitter(duration, maxFactor): duration + rand.Float64() * maxFactor *
\* duration with rand.Float64() in [0, 1); a maxFactor <= 0 counts as 1.
Jitter(duration, maxFactor) ==
    LET f == IF maxFactor <= 0 THEN 1 ELSE maxFactor
    IN  duration..(duration + f * duration - 1)

\* Changed FilteredGlobalResync: ShuttingDown() is not looked at.
FilteredGlobalResync_NoShutdownCheck(f, list) ==
    /\ rsPc = "idle"
    /\ rsPc' = "loop"
    /\ rsList' = list
    /\ rsPass' = f
    /\ rsIdx' = 1
    /\ UNCHANGED <<rsCalls, rsDelay>>
    /\ UNCHANGED <<engineVars, limiterVars, informerVars, ownerVars, bindVars>>

\* if c.WorkQueue.ShuttingDown() { return }; list := si.GetStore().List();
\* count := float64(len(list))
FilteredGlobalResync(f, list) ==
    /\ rsPc = "idle"
    /\ IF ShuttingDown
       THEN rsPc' = "refused" /\ UNCHANGED <<rsList, rsPass, rsIdx>>
       ELSE /\ rsPc' = "loop"
            /\ rsList' = list
            /\ rsPass' = f
            /\ rsIdx' = 1
    /\ UNCHANGED <<rsCalls, rsDelay>>
    /\ UNCHANGED <<engineVars, limiterVars, informerVars, ownerVars, bindVars>>

\* alwaysTrue := func(interface{}) bool { return true }
GlobalResync(list) == FilteredGlobalResync(Objects, list)

\* for _, obj := range list { if f(obj) { c.EnqueueAfter(obj, wait.Jitter(
\* time.Second, count)) } }: one turn of the loop, or its end.  EnqueueAfter
\* hands the object's key and the delay to EnqueueKeyAfter, that is to
\* WorkQueue.AddAfter.
ResyncStep ==
    /\ rsPc = "loop"
    /\ IF rsIdx <= Len(rsList)
       THEN /\ rsPc' = rsPc
            /\ rsIdx' = rsIdx + 1
            /\ IF rsList[rsIdx] \in rsPass
               THEN \E d \in Jitter(BaseInterval, Len(rsList)) :
                      /\ AddAfter(ObjKey(rsList[rsIdx]), d)
                      /\ rsCalls' = [rsCalls EXCEPT ![rsList[rsIdx]] = @ + 1]
                      /\ rsDelay' = d
               ELSE UNCHANGED <<rsCalls, rsDelay, queue, dirty, waiting>>
       ELSE /\ rsPc' = "done"
            /\ UNCHANGED <<rsIdx, rsCalls, rsDelay, queue, dirty, waiting>>
    /\ UNCHANGED <<rsList, rsPass, processing, shuttingDown, failures>>
    /\ UNCHANGED <<workerVars, runVars, ghostVars, clockVars, limiterVars, informerVars, ownerVars, bindVars>>

\* ---- EnqueueControllerOf ---------------------------------------------------------
Namespaces == {"ns", "kube"}
Names == {"a", "b"}

\* An owner reference: the owner's name and whether it is the controller.
OwnerRefs == [name : Names, controller : BOOLEAN]

\* What a handler may be given: an object, a tombstone wrapping the last
\* known state of a deleted object, or something that is neither.  The fields
\* are those of the object, or of the object inside the tombstone.
Wraps == {"object", "tombstone", "unknown"}

Handled ==
    [wrap : Wraps, namespace : Namespaces, name : Names,
     owners : UNION {[1..n -> OwnerRefs] : n \in 0..MaxOwners}]

NoObject == [wrap |-> "none", namespace |-> "ns", name |-> "a", owners |-> <<>>]

\* types.NamespacedName{Namespace: ns, Name: name}, in its string form.
NamespacedName(ns, name) == ns \o "/" \o name

\* DeletionHandlingAccessor(obj) returns no error: obj is an object or a
\* tombstone that holds one.
Resolvable(obj) == obj.wrap \in {"object", "tombstone"}

\* metav1.GetControllerOf(object): the first owner reference whose Controller
\* flag is set; 0 stands for nil.
RECURSIVE FirstController(_, _)
FirstController(owners, i) ==
    IF i > Len(owners) THEN 0
    ELSE IF owners[i].controller THEN i
    ELSE FirstController(owners, i + 1)

GetControllerOf(obj) == FirstController(obj.owners, 1)

\* Changed EnqueueControllerOf: the key is the object's own (as in Enqueue).
EnqueueControllerOf_OwnKey(obj) ==
    /\ ecoCalls < MaxEvents
    /\ ecoCalls' = ecoCalls + 1
    /\ ecoObj' = obj
    /\ IF Resolvable(obj)
       THEN /\ ecoKey' = NamespacedName(obj.namespace, obj.name)
            /\ Add(NamespacedName(obj.namespace, obj.name))
       ELSE /\ ecoKey' = NoKey
            /\ UNCHANGED <<queue, dirty>>
    /\ UNCHANGED <<processing, shuttingDown, waiting, failures>>
    /\ UNCHANGED <<workerVars, runVars, ghostVars, clockVars>>
    /\ UNCHANGED <<limiterVars, informerVars, resyncVars, bindVars>>

\* EnqueueControllerOf(obj): an argument that cannot be resolved is logged and
\* dropped; if the object has a controller, EnqueueKey, that is WorkQueue.Add,
\* is called with the object's namespace and the controller's name.
EnqueueControllerOf(obj) ==
    /\ ecoCalls < MaxEvents
    /\ ecoCalls' = ecoCalls + 1
    /\ ecoObj' = obj
    /\ IF Resolvable(obj) /\ GetControllerOf(obj) # 0
       THEN LET owner == obj.owners[GetControllerOf(obj)]
            IN  /\ ecoKey' = NamespacedName(obj.namespace, owner.name)
                /\ Add(NamespacedName(obj.namespace, owner.name))
       ELSE /\ ecoKey' = NoKey
            /\ UNCHANGED <<queue, dirty>>
    /\ UNCHANGED <<processing, shuttingDown, waiting, failures>>
    /\ UNCHANGED <<workerVars, runVars, ghostVars, clockVars>>
    /\ UNCHANGED <<limiterVars, informerVars, resyncVars, bindVars>>

\* ---- the scheduler extender: BindHandler ---------------------------------------
NoArgs == [PodName |-> "none", Node |-> "none"]
NoNode == "none"

\* A Go map of Status.PreAllocated: nil, or its keys (every value is "").
NilMap == [nil |-> TRUE, keys |-> {}]

\* copylv of bind: a nil map is made, then every name of pvcNames is a key.
PreAllocate(m, names) == [nil |-> FALSE, keys |-> m.keys \cup names]

\* The errors of the API calls, as apimachinery builds them.
PodNotFound == [reason |-> "NotFound", message |-> "pod not found"]
LocalVolumeNotFound == [reason |-> "NotFound", message |-> "localvolume not found"]
UpdateErrors == {[reason |-> "Conflict", message |-> "the object has been modified"],
                 [reason |-> "Timeout", message |-> "request timed out"]}
BindErrors == {[reason |-> "Conflict", message |-> "pod is already assigned to a node"],
               [reason |-> "Timeout", message |-> "request timed out"]}

\* err.Error()
ErrorText(e) == e.message

\* One API call of BindHandler: which call, on which object, how it ended.
Called(c, n, ok) == [call |-> c, name |-> n, ok |-> ok]

BindFrame == UNCHANGED <<engineVars, limiterVars, informerVars, resyncVars, ownerVars>>

\* The scheduler calls BindHandler(args).
BindHandler(q, n) ==
    /\ bhPc \in {"idle", "returned"}
    /\ bhCalls < MaxBinds
    /\ bhCalls' = bhCalls + 1
    /\ bhArgs' = [PodName |-> q, Node |-> n]
    /\ bhNames' = {}
    /\ bhLv' = NilMap
    /\ bhLog' = <<>>
    /\ bhResult' = [Error |-> ""]
    /\ bhPc' = "pod"
    /\ UNCHANGED <<lvStore, bound>>
    /\ BindFrame

\* pod, err := lvs.podLister.Pods(ns).Get(args.PodName); on an error bind
\* returns it and BindHandler returns its text.  Otherwise pvcNames are the
\* names getPodLocalVolumePVCNames finds in the pod (any of them).
BindGetPod ==
    /\ bhPc = "pod"
    /\ \/ /\ \E names \in SUBSET PVCs : bhNames' = names
          /\ bhLog' = Append(bhLog, Called("GetPod", bhArgs.PodName, TRUE))
          /\ bhPc' = "lv"
          /\ UNCHANGED bhResult
       \/ /\ bhLog' = Append(bhLog, Called("GetPod", bhArgs.PodName, FALSE))
          /\ bhResult' = [Error |-> ErrorText(PodNotFound)]
          /\ bhPc' = "returned"
          /\ UNCHANGED bhNames
    /\ UNCHANGED <<bhArgs, bhLv, bhCalls, lvStore, bound>>
    /\ BindFrame

\* lv, err := lvs.localVolumeLister.LocalVolumes(default).Get(args.Node)
BindGetLocalVolume ==
    /\ bhPc = "lv"
    /\ \/ /\ bhLv' = lvStore[bhArgs.Node]
          /\ bhLog' = Append(bhLog, Called("GetLocalVolume", bhArgs.Node, TRUE))
          /\ bhPc' = "update"
          /\ UNCHANGED bhResult
       \/ /\ bhLog' = Append(bhLog, Called("GetLocalVolume", bhArgs.Node, FALSE))
          /\ bhResult' = [Error |-> ErrorText(LocalVolumeNotFound)]
          /\ bhPc' = "returned"
          /\ UNCHANGED bhLv
    /\ UNCHANGED <<bhArgs, bhNames, bhCalls, lvStore, bound>>
    /\ BindFrame

\* Changed BindUpdateStatus: the error of UpdateStatus is not returned, and
\* BindHandler goes on to the pod binding.
BindUpdateStatus_ErrorIgnored ==
    /\ bhPc = "update"
    /\ \/ /\ lvStore' = [lvStore EXCEPT ![bhArgs.Node] = PreAllocate(bhLv, bhNames)]
          /\ bhLog' = Append(bhLog, Called("UpdateStatus", bhArgs.Node, TRUE))
          /\ bhPc' = "bind"
          /\ UNCHANGED bhResult
       \/ /\ \E e \in UpdateErrors : bhResult' = bhResult
          /\ bhLog' = Append(bhLog, Called("UpdateStatus", bhArgs.Node, FALSE))
          /\ bhPc' = "bind"
          /\ UNCHANGED lvStore
    /\ UNCHANGED <<bhArgs, bhNames, bhLv, bhCalls, bound>>
    /\ BindFrame

\* The copy with the pod's names pre-allocated is sent with UpdateStatus; on
\* an error bind returns it, otherwise bind returns nil.
BindUpdateStatus ==
    /\ bhPc = "update"
    /\ \/ /\ lvStore' = [lvStore EXCEPT ![bhArgs.Node] = PreAllocate(bhLv, bhNames)]
          /\ bhLog' = Append(bhLog, Called("UpdateStatus", bhArgs.Node, TRUE))
          /\ bhPc' = "bind"
          /\ UNCHANGED bhResult
       \/ /\ \E e \in UpdateErrors : bhResult' = [Error |-> ErrorText(e)]
          /\ bhLog' = Append(bhLog, Called("UpdateStatus", bhArgs.Node, FALSE))
          /\ bhPc' = "returned"
          /\ UNCHANGED lvStore
    /\ UNCHANGED <<bhArgs, bhNames, bhLv, bhCalls, bound>>
    /\ BindFrame

\* Changed BindPod: the error of Bind is logged and an empty result returned.
BindPod_ErrorDropped ==
    /\ bhPc = "bind"
    /\ \/ /\ bound' = [bound EXCEPT ![bhArgs.PodName] = bhArgs.Node]
          /\ bhLog' = Append(bhLog, Called("Bind", bhArgs.PodName, TRUE))
          /\ bhResult' = [Error |-> ""]
       \/ /\ \E e \in BindErrors : bhResult' = [Error |-> ""]
          /\ bhLog' = Append(bhLog, Called("Bind", bhArgs.PodName, FALSE))
          /\ UNCHANGED bound
    /\ bhPc' = "returned"
    /\ UNCHANGED <<bhArgs, bhNames, bhLv, bhCalls, lvStore>>
    /\ BindFrame

\* err == nil: lvs.kubeClient.CoreV1().Pods(ns).Bind(b) with Target the node;
\* its error text is returned, or the empty result.
BindPod ==
    /\ bhPc = "bind"
    /\ \/ /\ bound' = [bound EXCEPT ![bhArgs.PodName] = bhArgs.Node]
          /\ bhLog' = Append(bhLog, Called("Bind", bhArgs.PodName, TRUE))
          /\ bhResult' = [Error |-> ""]
       \/ /\ \E e \in BindErrors : bhResult' = [Error |-> ErrorText(e)]
          /\ bhLog' = Append(bhLog, Called("Bind", bhArgs.PodName, FALSE))
          /\ UNCHANGED bound
    /\ bhPc' = "returned"
    /\ UNCHANGED <<bhArgs, bhNames, bhLv, bhCalls, lvStore>>
    /\ BindFrame

\* ---- the rate limiter: workqueue.DefaultControllerRateLimiter() -------------
\* The limiter NewImplWithStats gives the queue is the larger of two: the per-key
\* exponential backoff (When above) and one token bucket shared by all keys.
\* Spec keeps the per-key part only: the bucket can only lengthen a wait, and a
\* delayed entry of Spec may fire late by any amount.  LimiterSpec below has both.

\* The bucket limiter's When: take a token; a token not there yet is waited for,
\* one tick per token.
BucketWhen == IF tokens >= 1 THEN 0 ELSE 1 - tokens

\* MaxOfRateLimiter.When: both limiters are asked, the longer delay wins.
RateLimiterWhen(k) == Max(When(k), BucketWhen)

\* AddRateLimited's call of the limiter's When(k): the key's failure is counted
\* and a token of the bucket is taken.
LimiterWhen(k) ==
    /\ failures[k] < MaxCalls
    /\ tokens > -MaxDebt
    /\ failures' = [failures EXCEPT ![k] = @ + 1]
    /\ tokens' = tokens - 1
    /\ lastDelay' = [lastDelay EXCEPT ![k] = RateLimiterWhen(k)]
    /\ seen' = [seen EXCEPT ![failures[k]] =
                    IF @ = -1 THEN RateLimiterWhen(k) ELSE @]
    /\ UNCHANGED <<queue, dirty, processing, shuttingDown, waiting>>
    /\ UNCHANGED <<workerVars, runVars, ghostVars, clockVars, informerVars, resyncVars, ownerVars, bindVars>>

\* Changed LimiterForget: Forget does not reach the per-key limiter.
LimiterForget_CountKept(k) ==
    /\ lastDelay' = [lastDelay EXCEPT ![k] = -1]
    /\ UNCHANGED <<queueVars, workerVars, runVars, ghostVars, clockVars, informerVars, resyncVars, ownerVars, bindVars, tokens, seen>>

\* The worker's WorkQueue.Forget(key): MaxOfRateLimiter.Forget clears the key's
\* failure count; the bucket has nothing to forget.
LimiterForget(k) ==
    /\ Forget(k)
    /\ lastDelay' = [lastDelay EXCEPT ![k] = -1]
    /\ UNCHANGED <<queue, dirty, processing, shuttingDown, waiting>>
    /\ UNCHANGED <<workerVars, runVars, ghostVars, clockVars, informerVars, resyncVars, ownerVars, bindVars, tokens, seen>>

\* One unit of time passes: the bucket gains a token, up to its burst.
LimiterTick ==
    /\ tokens < BucketBurst
    /\ tokens' = tokens + 1
    /\ UNCHANGED <<queueVars, workerVars, runVars, ghostVars, clockVars, informerVars, resyncVars, ownerVars, bindVars, lastDelay, seen>>

\* ---- the system ---------------------------------------------------------------
\* The queue as NewImplWithStats builds it.
InitQueue ==
    /\ queue = <<>>
    /\ dirty = {}
    /\ processing = {}
    /\ shuttingDown = FALSE
    /\ waiting = {}
    /\ due = [k \in Keys |-> 0]
    /\ failures = [k \in Keys |-> 0]

\* Nothing has been asked of the engine's other functions, and the counters
\* that follow the producers are at rest.
InitOthers ==
    /\ watched \in Keys
    /\ adds = <<0, 0>>
    /\ drained = FALSE
    /\ sched = -1
    /\ tokens = BucketBurst
    /\ lastDelay = [k \in Keys |-> -1]
    /\ seen = [n \in 0..MaxCalls |-> -1]
    /\ informers = 0
    /\ started = {}
    /\ synced = {}
    /\ siStop = FALSE
    /\ siPc = "idle"
    /\ siIdx = 0
    /\ siErr = -1
    /\ stoppedEarly = FALSE
    /\ rsPc = "idle"
    /\ rsList = <<>>
    /\ rsPass = {}
    /\ rsIdx = 1
    /\ rsCalls = [o \in Objects |-> 0]
    /\ rsDelay = -1
    /\ ecoObj = NoObject
    /\ ecoKey = NoKey
    /\ ecoCalls = 0
    /\ bhPc = "idle"
    /\ bhArgs = NoArgs
    /\ bhNames = {}
    /\ bhLv = NilMap
    /\ bhLog = <<>>
    /\ bhResult = [Error |-> ""]
    /\ bhCalls = 0
    /\ lvStore = [n \in Nodes |-> NilMap]
    /\ bound = [q \in Pods |-> NoNode]

\* Run(threadiness, stopCh) has started its workers and waits for the stop
\* signal.
Init ==
    /\ InitQueue
    /\ threadiness \in 0..MaxThreadiness
    /\ stopCh = FALSE
    /\ runPc = "running"
    /\ pc = [w \in 1..threadiness |-> "get"]
    /\ item = [w \in 1..threadiness |-> NoKey]
    /\ err = [w \in 1..threadiness |-> "nil"]
    /\ did = [w \in 1..threadiness |-> "none"]
    /\ cleared = [w \in 1..threadiness |-> FALSE]
    /\ InitOthers

Next ==
    \/ \E k \in Keys : EnqueueKey(k) /\ UNCHANGED clockVars
    \/ \E k \in Keys, d \in Delays : EnqueueKeyAfter(k, d) /\ UNCHANGED clockVars
    \/ \E k \in Keys : TimerFire(k) /\ UNCHANGED clockVars
    \/ StopSignal /\ UNCHANGED clockVars
    \/ RunShutDown /\ UNCHANGED clockVars
    \/ RunSleep /\ UNCHANGED clockVars
    \/ RunWake /\ UNCHANGED clockVars
    \/ RunDrain /\ UNCHANGED clockVars
    \/ RunJoin /\ UNCHANGED clockVars
    \/ \E w \in Workers : ProcessGet(w) /\ UNCHANGED clockVars
    \/ \E w \in Workers, e \in Errors : Reconcile(w, e) /\ UNCHANGED clockVars
    \/ \E w \in Workers : Requeue(w) /\ UNCHANGED clockVars
    \/ \E w \in Workers : DeferredDone(w) /\ UNCHANGED clockVars

Spec == Init /\ [][Next]_vars

\* Scheduling: Run's goroutine and every worker goroutine keep running, and
\* every Reconcile call returns.  Producers, timers and the stop signal are
\* under no obligation.
Fairness ==
    /\ WF_vars(RunShutDown /\ UNCHANGED clockVars)
    /\ WF_vars(RunSleep /\ UNCHANGED clockVars)
    /\ WF_vars(RunWake /\ UNCHANGED clockVars)
    /\ WF_vars(RunDrain /\ UNCHANGED clockVars)
    /\ WF_vars(RunJoin /\ UNCHANGED clockVars)
    /\ \A w \in 1..MaxThreadiness :
        /\ WF_vars(w \in Workers /\ ProcessGet(w) /\ UNCHANGED clockVars)
        /\ WF_vars(w \in Workers /\ UNCHANGED clockVars /\ \E e \in Errors : Reconcile(w, e))
        /\ WF_vars(w \in Workers /\ Requeue(w) /\ UNCHANGED clockVars)
        /\ WF_vars(w \in Workers /\ DeferredDone(w) /\ UNCHANGED clockVars)

FairSpec == Init /\ [][Next]_vars /\ Fairness

\* Scheduling for retries: besides the goroutines, the delaying queue's timers
\* fire: an entry that is pending is handed to Add after a finite time.
TimerFairness ==
    \A k \in Keys : WF_vars(TimerFire(k) /\ UNCHANGED clockVars)

\* The liveness of the worker loop is checked for a pool of at most
\* FairThreadiness workers.
FairInit ==
    /\ Init
    /\ threadiness <= FairThreadiness
    /\ watched = CHOOSE k \in Keys : TRUE

FairWorkSpec == FairInit /\ [][Next]_vars /\ Fairness

FairTimerSpec == FairInit /\ [][Next]_vars /\ Fairness /\ TimerFairness

\* The rate limiter alone, called as the workers call it.
LimiterNext ==
    \/ \E k \in Keys : LimiterWhen(k)
    \/ \E k \in Keys : LimiterForget(k)
    \/ LimiterTick

LimiterSpec == Init /\ [][LimiterNext]_vars

\* StartInformers with its informers and its stop channel.
InformerNext ==
    \/ \E n \in 0..MaxInformers : StartInformers(n)
    \/ StartRun
    \/ \E i \in Informer : InformerSyncs(i)
    \/ InformerStop
    \/ WaitCall
    \/ PollSynced
    \/ PollStopped

InformerSpec == Init /\ [][InformerNext]_vars

\* A resync of the queue from a store, with Run's shutdown beside it.
ResyncNext ==
    \/ \E f \in SUBSET Objects, list \in StoreLists : FilteredGlobalResync(f, list)
    \/ \E list \in StoreLists : GlobalResync(list)
    \/ ResyncStep
    \/ StopSignal /\ UNCHANGED clockVars
    \/ RunShutDown /\ UNCHANGED clockVars

ResyncSpec == Init /\ [][ResyncNext]_vars

\* Events of owned objects reaching EnqueueControllerOf.
OwnerNext ==
    \/ \E obj \in Handled : EnqueueControllerOf(obj)

\* No worker takes part.
OwnerInit == Init /\ threadiness = 0

OwnerSpec == OwnerInit /\ [][OwnerNext]_vars

\* Bind requests of the scheduler reaching BindHandler, one at a time.
BindNext ==
    \/ \E q \in Pods, n \in Nodes : BindHandler(q, n)
    \/ BindGetPod
    \/ BindGetLocalVolume
    \/ BindUpdateStatus
    \/ BindPod

\* The controller's engine takes no part.
BindInit == OwnerInit /\ watched = CHOOSE k \in Keys : TRUE

BindSpec == BindInit /\ [][BindNext]_vars

\* The engine with a Reconciler that may panic.
CrashNext ==
    \/ \E k \in Keys : Alive /\ EnqueueKey(k) /\ UNCHANGED clockVars
    \/ \E k \in Keys, d \in Delays :
          Alive /\ EnqueueKeyAfter(k, d) /\ UNCHANGED clockVars
    \/ \E k \in Keys : Alive /\ TimerFire(k) /\ UNCHANGED clockVars
    \/ Alive /\ StopSignal /\ UNCHANGED clockVars
    \/ RunShutDown /\ UNCHANGED clockVars
    \/ RunSleep /\ UNCHANGED clockVars
    \/ RunWake /\ UNCHANGED clockVars
    \/ RunDrain /\ UNCHANGED clockVars
    \/ RunJoin /\ UNCHANGED clockVars
    \/ \E w \in Workers : Alive /\ ProcessGet(w) /\ UNCHANGED clockVars
    \/ \E w \in Workers, e \in Errors :
          Alive /\ Reconcile(w, e) /\ UNCHANGED clockVars
    \/ \E w \in Workers : Alive /\ ReconcilePanics(w) /\ UNCHANGED clockVars
    \/ \E w \in Workers : Alive /\ PanicDone(w) /\ UNCHANGED clockVars
    \/ \E w \in Workers : Alive /\ Requeue(w) /\ UNCHANGED clockVars
    \/ \E w \in Workers : Alive /\ DeferredDone(w) /\ UNCHANGED clockVars

\* Which key the producers' counters follow plays no part here: one is taken.
CrashInit == Init /\ watched = CHOOSE k \in Keys : TRUE

CrashSpec == CrashInit /\ [][CrashNext]_vars

\* The engine from the call of Run: the workers are started one by one, while
\* producers and the workers already started go on.
LaunchInit ==
    /\ InitQueue
    /\ threadiness \in 0..MaxThreadiness
    /\ stopCh = FALSE
    /\ runPc = "starting"
    /\ pc = <<>>
    /\ item = <<>>
    /\ err = <<>>
    /\ did = <<>>
    /\ cleared = <<>>
    /\ InitOthers
    /\ watched = CHOOSE k \in Keys : TRUE

LaunchNext ==
    \/ RunLaunch /\ UNCHANGED clockVars
    \/ \E k \in Keys : EnqueueKey(k) /\ UNCHANGED clockVars
    \/ \E k \in Keys, d \in Delays : EnqueueKeyAfter(k, d) /\ UNCHANGED clockVars
    \/ \E k \in Keys : TimerFire(k) /\ UNCHANGED clockVars
    \/ StopSignal /\ UNCHANGED clockVars
    \/ RunShutDown /\ UNCHANGED clockVars
    \/ RunSleep /\ UNCHANGED clockVars
    \/ RunWake /\ UNCHANGED clockVars
    \/ RunDrain /\ UNCHANGED clockVars
    \/ RunJoin /\ UNCHANGED clockVars
    \/ \E w \in Launched : ProcessGet(w) /\ UNCHANGED clockVars
    \/ \E w \in Launched, e \in Errors : Reconcile(w, e) /\ UNCHANGED clockVars
    \/ \E w \in Launched : Requeue(w) /\ UNCHANGED clockVars
    \/ \E w \in Launched : DeferredDone(w) /\ UNCHANGED clockVars

LaunchSpec == LaunchInit /\ [][LaunchNext]_vars

\* The engine with a producer that bypasses the Enqueue API.
MalformedNext ==
    \/ Alive /\ RawAdd /\ UNCHANGED clockVars
    \/ \E k \in Keys : Alive /\ EnqueueKey(k) /\ UNCHANGED clockVars
    \/ \E k \in Keys, d \in Delays :
          Alive /\ EnqueueKeyAfter(k, d) /\ UNCHANGED clockVars
    \/ \E k \in Keys : Alive /\ TimerFire(k) /\ UNCHANGED clockVars
    \/ Alive /\ StopSignal /\ UNCHANGED clockVars
    \/ RunShutDown /\ UNCHANGED clockVars
    \/ RunSleep /\ UNCHANGED clockVars
    \/ RunWake /\ UNCHANGED clockVars
    \/ RunDrain /\ UNCHANGED clockVars
    \/ RunJoin /\ UNCHANGED clockVars
    \/ \E w \in Workers : Alive /\ ProcessGet(w) /\ UNCHANGED clockVars
    \/ \E w \in Workers : Alive /\ ProcessGetMalformed(w) /\ UNCHANGED clockVars
    \/ \E w \in Workers, e \in Errors :
          Alive /\ Reconcile(w, e) /\ UNCHANGED clockVars
    \/ \E w \in Workers : Alive /\ Requeue(w) /\ UNCHANGED clockVars
    \/ \E w \in Workers : Alive /\ DeferredDone(w) /\ UNCHANGED clockVars

MalformedSpec == CrashInit /\ [][MalformedNext]_vars

\* The engine against the clock.
\* The keys are interchangeable: the producers' clock follows one of them.
TimedInit ==
    /\ Init
    /\ threadiness <= TimedThreadiness
    /\ watched = CHOOSE k \in Keys : TRUE

TimedNext ==
    \/ \E k \in Keys : EnqueueKey(k) /\ ClockAdd(k)
    \/ \E k \in Keys, d \in TimedDelays : EnqueueKeyAfter(k, d) /\ ClockAfter(k, d)
    \/ Tick
    \/ \E k \in Keys : TimerFire(k) /\ ClockFire(k)
    \/ StopSignal /\ UNCHANGED clockVars
    \/ RunShutDown /\ UNCHANGED clockVars
    \/ RunSleep /\ UNCHANGED clockVars
    \/ RunWake /\ UNCHANGED clockVars
    \/ RunDrain /\ UNCHANGED clockVars
    \/ RunJoin /\ UNCHANGED clockVars
    \/ \E w \in Workers : ProcessGet(w) /\ ClockGet(w)
    \/ \E w \in Workers, e \in Errors : Reconcile(w, e) /\ UNCHANGED clockVars
    \/ \E w \in Workers : Requeue(w) /\ ClockAfter(item[w], When(item[w]))
    \/ \E w \in Workers : DeferredDone(w) /\ UNCHANGED clockVars

TimedSpec == TimedInit /\ [][TimedNext]_vars


\* ==== claims =====================================================================
AddCalls == adds[1] + adds[2]

\* C1: for every key, at most one worker is executing Reconcile for it, whatever
\* the interleaving of Add calls, timer firings and AddRateLimited calls.
C1_NoDuplicateProcessing ==
    \A w1, w2 \in Workers :
        (w1 # w2 /\ pc[w1] = "reconcile" /\ pc[w2] = "reconcile")
            => item[w1] # item[w2]

\* A key was added again while its Reconcile runs and another worker is free.
C1_Witness ==
    \E w1, w2 \in Workers :
        /\ w1 # w2
        /\ pc[w1] = "reconcile" /\ item[w1] = watched /\ adds[1] >= 1
        /\ watched \in dirty
        /\ pc[w2] = "get"

\* C2: the ready queue holds no key twice, and a key is in the ready queue iff
\* it is dirty and not being processed.
C2_QueueInvariant ==
    /\ \A k \in Keys : Count(queue, k) <= 1
    /\ \A k \in Keys : InQueue(k) <=> (k \in dirty /\ k \notin processing)

\* After ShutDown: one key dirty while processed, another one ready.
C2_Witness ==
    /\ shuttingDown
    /\ \E k1, k2 \in Keys :
        k1 \in dirty /\ k1 \in processing /\ ~InQueue(k1) /\ InQueue(k2)

\* C3 as stated: two or more Add(k) calls with no Get in between, k not being
\* processed: the queue holds k exactly once.
C3_Original ==
    (AddCalls >= 2 /\ watched \notin processing) => Count(queue, watched) = 1

\* C3 amended: two or more Add(k) calls, the first of them before ShutDown has
\* begun, with no Get in between and k not being processed: the queue holds k
\* exactly once; and once a Get has returned k, with no Add since, the queue
\* does not hold k, so the following Gets return it once.
C3_DedupWhileQueued ==
    /\ (AddCalls >= 2 /\ adds[1] >= 1 /\ watched \notin processing)
           => Count(queue, watched) = 1
    /\ (AddCalls = 0 /\ \E w \in Workers : item[w] = watched)
           => Count(queue, watched) = 0

\* Add(k) called twice before ShutDown, k still queued behind another key.
C3_Witness ==
    /\ adds[1] = 2 /\ watched \notin processing
    /\ Count(queue, watched) = 1 /\ QLen = 2

\* The deferred Done step of worker w for the watched key.
DoneStep(w) == pc[w] = "done" /\ pc'[w] = "get" /\ item[w] = watched

\* C4 as stated: Add(k) called while k is in processing keeps k out of the ready
\* queue until Done(k), and that Done(k) appends k exactly once.
C4_Original ==
    [][\A w \in Workers :
          (DoneStep(w) /\ AddCalls >= 1)
              => /\ queue' = Append(queue, watched)
                 /\ Count(queue', watched) = 1]_vars

\* C4 amended: Add(k) called one or more times while k is in processing, at
\* least once before ShutDown has begun: k stays out of the ready queue while it
\* is in processing, and Done(k) appends it exactly once.
C4_ReAddDuringProcessing ==
    /\ [](\A k \in processing : Count(queue, k) = 0)
    /\ [][\A w \in Workers :
             (DoneStep(w) /\ adds[1] >= 1)
                 => /\ queue' = Append(queue, watched)
                    /\ Count(queue', watched) = 1]_vars

\* Two Adds of a key while it is processed, a second worker idle.
C4_Witness ==
    \E w1, w2 \in Workers :
        /\ w1 # w2 /\ pc[w1] = "done" /\ pc[w2] = "get"
        /\ item[w1] = watched /\ adds[1] = 2 /\ Count(queue, watched) = 0

\* A step of worker w out of program point p.
StepFrom(w, p) == pc[w] = p /\ pc'[w] # p

\* C5: after a permanent error the worker calls Forget(k) and makes no Add,
\* AddAfter or AddRateLimited call for k: handling the result leaves the ready
\* queue, the dirty set and the delayed entries as they are, and the deferred
\* Done re-queues k only if somebody else had marked it dirty.
C5_PermanentNeverRetried ==
    /\ [](\A w \in Workers :
            (pc[w] = "done" /\ err[w] = "permanent") => did[w] = "Forget")
    /\ [][\A w \in Workers :
            /\ (StepFrom(w, "reconcile") /\ err'[w] = "permanent")
                 => /\ pc'[w] = "done" /\ did'[w] = "Forget"
                    /\ failures'[item[w]] = 0
                    /\ UNCHANGED <<queue, dirty, waiting>>
            /\ (StepFrom(w, "done") /\ err[w] = "permanent")
                 => /\ UNCHANGED <<dirty, waiting>>
                    /\ queue' # queue => item[w] \in dirty]_vars

\* A permanent error was handled outside shutdown; the key is neither dirty nor
\* scheduled.
C5_Witness ==
    \E w \in Workers :
        /\ pc[w] = "done" /\ err[w] = "permanent" /\ did[w] = "Forget"
        /\ ~shuttingDown /\ item[w] \notin dirty /\ item[w] \notin waiting

\* C6: after a non-permanent error the worker goes on to AddRateLimited(k) iff
\* the queue is not shutting down when handleErr checks; otherwise it makes no
\* requeue call.  An AddRateLimited that runs after ShutDown has begun schedules
\* nothing.
C6_TransientRequeue ==
    /\ [](\A w \in Workers : pc[w] = "requeue" => err[w] = "transient")
    /\ [][\A w \in Workers :
            /\ (StepFrom(w, "reconcile") /\ err'[w] = "transient")
                 => IF shuttingDown
                    THEN /\ pc'[w] = "done" /\ did'[w] = "Forget"
                         /\ UNCHANGED <<queue, dirty, waiting>>
                    ELSE pc'[w] = "requeue"
            /\ StepFrom(w, "requeue")
                 => /\ pc'[w] = "done" /\ did'[w] = "AddRateLimited"
                    /\ failures'[item[w]] = failures[item[w]] + 1
                    /\ UNCHANGED <<queue, dirty>>
                    /\ waiting' = IF shuttingDown THEN waiting
                                  ELSE waiting \cup {item[w]}]_vars

\* One worker has requeued its key, another one skipped the requeue.
C6_Witness ==
    \E w1, w2 \in Workers :
        /\ pc[w1] = "done" /\ err[w1] = "transient"
        /\ did[w1] = "AddRateLimited" /\ item[w1] \in waiting
        /\ pc[w2] = "done" /\ err[w2] = "transient" /\ did[w2] = "Forget"

C8_RunEventuallyReturns == stopCh ~> (runPc = "returned")

\* With at least one worker, or with nothing queued when the drain poll runs,
\* the same property holds: the poll loop is the only place Run can stay in.
RunReturnsWithWorkers ==
    (stopCh /\ threadiness >= 1) ~> (runPc = "returned")

\* C9: Get hands out the keys still in the ready queue after ShutDown; a worker
\* leaves its loop (Get's shutdown = true) only when the queue is shut down and
\* the ready queue is empty.
C9_DrainAfterShutDown ==
    /\ [](\A w \in Workers : pc[w] = "exited" => shuttingDown)
    /\ [][\A w \in Workers :
            StepFrom(w, "get")
                => IF queue # <<>>
                   THEN /\ pc'[w] = "reconcile"
                        /\ item'[w] = Head(queue)
                        /\ queue' = Tail(queue)
                   ELSE shuttingDown /\ pc'[w] = "exited"]_vars

\* A key was pulled after ShutDown and its worker is in Reconcile, another
\* worker has left its loop.
C9_Witness ==
    /\ drained
    /\ \E w1, w2 \in Workers : pc[w1] = "reconcile" /\ pc[w2] = "exited"

\* C10: once ShutDown has begun no call adds to the dirty set or to the delayed
\* entries, and the ready queue changes only by a worker's Get or Done;
\* EnqueueKey and AddRateLimited calls made then change none of the three.
C10_NoOpAfterShutDown ==
    [][shuttingDown =>
            /\ dirty' \subseteq dirty
            /\ waiting' \subseteq waiting
            /\ queue' # queue
                 => \E w \in Workers : StepFrom(w, "get") \/ StepFrom(w, "done")
            /\ adds' # adds /\ adds' # <<0, 0>>
                 => UNCHANGED <<queue, dirty, waiting>>
            /\ \A w \in Workers :
                 StepFrom(w, "requeue") => UNCHANGED <<queue, dirty, waiting>>
         ]_vars

\* During shutdown: an EnqueueKey call was dropped, and a worker's requeue left
\* its key neither dirty nor scheduled.
C10_Witness ==
    /\ shuttingDown /\ adds[2] >= 1 /\ watched \notin dirty
    /\ \E w \in Workers :
        /\ pc[w] = "done" /\ did[w] = "AddRateLimited"
        /\ item[w] \notin waiting /\ item[w] \notin dirty

WhenStep(k) == failures'[k] = failures[k] + 1

SIReturns == siPc # "returned" /\ siPc' = "returned"

\* C15 as stated: StartInformers returns nil only when every informer has synced,
\* and when the stop channel was closed while some informer had not synced it
\* returns an error whose index is the lowest one of an informer that has not
\* synced.
C15_Original ==
    [][SIReturns
         => /\ siErr' = -1 => \A i \in Informer : i \in synced
            /\ stoppedEarly
                 => /\ siErr' \in Informer
                    /\ siErr' \notin synced
                    /\ \A j \in Informer : j < siErr' => j \in synced]_vars

\* C15 amended: StartInformers returns nil only when every informer has synced;
\* it returns an error only after the stop channel was closed, the index in the
\* error is that of the informer it was waiting for, and every informer of a
\* lower index has synced.  (A stop that comes while some informer has not
\* synced does not by itself decide the result.)
C15_SyncBarrier ==
    /\ [](siPc = "returned"
            => IF siErr = -1
               THEN \A i \in Informer : i \in synced
               ELSE /\ siStop
                    /\ siErr \in Informer
                    /\ \A j \in Informer : j < siErr => j \in synced)
    /\ [][SIReturns /\ siErr' # -1 => siPc = "poll" /\ siErr' = siIdx]_vars

\* The stop channel was closed while the second informer had not synced, and
\* StartInformers returned the error for index 1, the first having synced.
C15_Witness ==
    /\ siPc = "returned" /\ siErr = 1 /\ stoppedEarly
    /\ 0 \in synced /\ 1 \notin synced


\* What a resync that went through its loop has done when it returns.
ResyncDone ==
    /\ \A o \in Objects :
          rsCalls[o] = IF (\E i \in DOMAIN rsList : rsList[i] = o) /\ o \in rsPass
                       THEN 1 ELSE 0
    /\ (\A i \in DOMAIN rsList : rsList[i] \in rsPass)
          => Cardinality({o \in Objects : rsCalls[o] = 1}) = Len(rsList)

\* C16: a FilteredGlobalResync that finds the queue shutting down makes no
\* EnqueueAfter call and leaves the queue as it is; otherwise, when it returns,
\* it has made one EnqueueAfter call for every object of the store that passes
\* the filter and none for any other (so as many as the store holds when every
\* object passes, as with GlobalResync); it never makes two for one object.
C16_ResyncCalls ==
    /\ [][(rsPc = "idle" /\ rsPc' # "idle" /\ shuttingDown)
            => rsPc' = "refused"]_vars
    /\ [](/\ \A o \in Objects : rsCalls[o] <= 1
          /\ rsPc = "refused"
               => /\ \A o \in Objects : rsCalls[o] = 0
                  /\ waiting = {} /\ dirty = {}
          /\ rsPc = "done" => ResyncDone)

\* A resync over a store of two objects, one of which fails the filter, has
\* returned: one call was made, for the object that passes.
C16_Witness ==
    /\ rsPc = "done" /\ Len(rsList) = 2
    /\ \E o1, o2 \in Objects :
          /\ o1 \in rsPass /\ o2 \notin rsPass
          /\ rsCalls[o1] = 1 /\ rsCalls[o2] = 0

ControllerNames(obj) ==
    {obj.owners[i].name : i \in {j \in DOMAIN obj.owners : obj.owners[j].controller}}

\* C18: EnqueueControllerOf(obj) passes a key to the queue exactly when obj
\* resolves to an object that has a controller owner reference; the key then
\* has the object's namespace and the name of its controller, and the queue
\* changes as by Add of that key; in every other case the queue is not touched.
C18_OwnerPropagation ==
    /\ [](ecoObj # NoObject
            => IF Resolvable(ecoObj) /\ ControllerNames(ecoObj) # {}
               THEN \E n \in ControllerNames(ecoObj) :
                       ecoKey = NamespacedName(ecoObj.namespace, n)
               ELSE ecoKey = NoKey)
    /\ [][IF ecoKey' = NoKey
          THEN UNCHANGED <<queue, dirty>>
          ELSE /\ dirty' = dirty \cup {ecoKey'}
               /\ queue' = IF ecoKey' \in dirty THEN queue
                            ELSE Append(queue, ecoKey')]_vars

\* The event of an object in one namespace, owned by a controller of another
\* name, put the controller's key, not the object's, in the queue.
C18_Witness ==
    /\ ecoObj # NoObject /\ ecoObj.wrap = "tombstone"
    /\ Len(ecoObj.owners) = 2 /\ ~ecoObj.owners[1].controller
    /\ ecoObj.owners[2].controller /\ ecoObj.owners[2].name # ecoObj.name
    /\ ecoKey = NamespacedName(ecoObj.namespace, ecoObj.owners[2].name)
    /\ InQueue(ecoKey)
    /\ ~InQueue(NamespacedName(ecoObj.namespace, ecoObj.name))


\* Worker w is between a Get that gave it a key and the end of the
\* processNextWorkItem call that got it.
Holding(w) == pc[w] \in {"reconcile", "requeue", "done", "panic"}

\* C19: a worker that got a key from Get keeps it in processing until its
\* processNextWorkItem call ends, whether Reconcile returned nil, an error, a
\* permanent error, or panicked; the end of the call is one Done(key) (the key
\* leaves processing and goes back to the ready queue once if it is dirty), and
\* a key is in processing only while a worker's call holds it.
C19_DoneExactlyOnce ==
    /\ [](\A w \in Workers : Holding(w) => item[w] \in processing)
    /\ [](\A k \in processing : \E w \in Workers : Holding(w) /\ item[w] = k)
    /\ [][\A w \in Workers :
            /\ (Holding(w) /\ ~Holding(w)')
                 => /\ processing' = processing \ {item[w]}
                    /\ queue' = IF item[w] \in dirty
                                 THEN Append(queue, item[w]) ELSE queue
            /\ (Holding(w) /\ item[w] \notin processing') => ~Holding(w)']_vars

\* Reconcile panicked for a key that had been added again meanwhile: the
\* deferred Done released the key and put it back in the ready queue.
C19_Witness ==
    \E w \in Workers :
        /\ pc[w] = "crashed" /\ err[w] = "panic"
        /\ item[w] \notin processing /\ InQueue(item[w])


\* C20: with at least one worker, a key that is dirty (an Add for it took effect
\* and no Get has returned it since, whether or not it is being reconciled at
\* that moment) is later handed to a worker by a Get, which starts a Reconcile
\* call for it with the dirty mark cleared.
C20_AddLeadsToReconcile ==
    \A k \in Keys :
        (threadiness >= 1 /\ k \in dirty)
            ~> (\E w \in Workers :
                   pc[w] = "reconcile" /\ item[w] = k /\ k \notin dirty)

\* A key was added again while a worker is reconciling it: it is dirty and
\* held, and not in the ready queue.
C20_Witness ==
    \E w \in Workers, k \in Keys :
        /\ pc[w] = "reconcile" /\ item[w] = k
        /\ k \in dirty /\ k \in processing /\ ~InQueue(k)
        /\ ~shuttingDown


\* C21: between the return of Reconcile and the deferred Done the worker makes
\* one call of the rate limiter for its key and no more: Forget when Reconcile
\* returned nil or a permanent error, or a transient error while the queue is
\* shutting down; AddRateLimited for a transient error otherwise.  It makes none
\* before Reconcile has returned, and none with or after Done.
C21_ForgetOrRequeue ==
    /\ [](\A w \in Workers :
            /\ pc[w] \in {"get", "reconcile", "requeue"} => did[w] = "none"
            /\ pc[w] = "done" => did[w] \in {"Forget", "AddRateLimited"}
            /\ (pc[w] = "done" /\ did[w] = "AddRateLimited") => err[w] = "transient")
    /\ [][\A w \in Workers :
            /\ StepFrom(w, "get") => UNCHANGED <<failures, waiting>>
            /\ StepFrom(w, "reconcile")
                 => IF err'[w] = "transient" /\ ~shuttingDown
                    THEN /\ pc'[w] = "requeue" /\ did'[w] = "none"
                         /\ UNCHANGED <<failures, waiting>>
                    ELSE /\ pc'[w] = "done" /\ did'[w] = "Forget"
                         /\ failures' = [failures EXCEPT ![item[w]] = 0]
                         /\ waiting' = waiting
            /\ StepFrom(w, "requeue")
                 => /\ pc'[w] = "done" /\ did'[w] = "AddRateLimited"
                    /\ failures' = [failures EXCEPT ![item[w]] = @ + 1]
            /\ StepFrom(w, "done")
                 => /\ pc'[w] = "get" /\ item[w] \notin processing'
                    /\ UNCHANGED <<failures, waiting>>]_vars

\* The three ways to Forget and the one to AddRateLimited cannot all be seen at
\* once with two workers; here a transient error met during shutdown was
\* forgotten while the other worker's transient error, met before, was requeued
\* and had raised its key's failure count.
C21_Witness ==
    \E w1, w2 \in Workers :
        /\ shuttingDown
        /\ pc[w1] = "done" /\ err[w1] = "transient" /\ did[w1] = "Forget"
        /\ failures[item[w1]] = 0
        /\ pc[w2] = "done" /\ err[w2] = "transient"
        /\ did[w2] = "AddRateLimited" /\ failures[item[w2]] = 1


\* Reconcile calls in flight: the workers inside c.Reconciler.Reconcile.
InFlight == {w \in Launched : pc[w] = "reconcile"}

\* C22: Run(n, stop) starts no more than n workers, so no more than n Reconcile
\* calls are in flight, and no more than n keys are in processing.
C22_AtMostNInFlight ==
    /\ Len(pc) <= threadiness
    /\ Cardinality(InFlight) <= threadiness
    /\ Cardinality(processing) <= threadiness

\* Run(1): the only worker is in Reconcile and another key waits in the queue.
C22_Witness ==
    /\ threadiness = 1 /\ runPc = "running"
    /\ Cardinality(InFlight) = 1 /\ Cardinality(processing) = 1
    /\ queue # <<>>


\* A worker takes the malformed item off the queue in this step.
TakesMalformed ==
    /\ queue # <<>> /\ Head(queue) = Malformed
    /\ queue' = Tail(queue)

\* C23: a worker that gets an item that is not a key panics.  Reconcile is
\* never called for the item (no worker ever holds it as its key); the step
\* that takes it ends the process, with no Forget, no requeue and no Done; from
\* then on the item stays in processing, never back in the queue or waiting.
C23_MalformedItemPanics ==
    /\ [](\A w \in Workers : item[w] # Malformed)
    /\ [](Malformed \in processing => runPc = "crashed")
    /\ [](Malformed \notin waiting)
    /\ [][TakesMalformed =>
            (/\ runPc' = "crashed"
             /\ \E w \in Workers : pc[w] = "get" /\ pc'[w] = "crashed"
             /\ Malformed \in processing'
             /\ did' = did /\ failures' = failures /\ waiting' = waiting)]_vars
    /\ [][(Malformed \in processing) =>
            (Malformed \in processing' /\ queue' = queue)]_vars

\* Two workers, one inside Reconcile with a key: the other took the malformed
\* item and the process has ended with both items still in processing.
C23_Witness ==
    /\ runPc = "crashed"
    /\ Malformed \in processing
    /\ \E w \in Workers : pc[w] = "crashed" /\ item[w] = NoKey
    /\ \E w \in Workers : pc[w] = "reconcile" /\ item[w] \in processing


\* Positions in the log of the current BindHandler call.
BindCalls == {i \in DOMAIN bhLog : bhLog[i].call = "Bind"}
FailedCalls == {i \in DOMAIN bhLog : ~bhLog[i].ok}

\* C24: in a BindHandler call, the pod Bind API is called only after an
\* UpdateStatus of the target node's LocalVolume succeeded; no Bind follows a
\* failed pod lookup, LocalVolume lookup or status update; and the returned
\* result has a non-empty Error exactly when some call of the sequence failed.
C24_BindAfterPreAllocate ==
    /\ [](\A i \in BindCalls :
            /\ bhLog[i].name = bhArgs.PodName
            /\ \E j \in 1..(i - 1) :
                  bhLog[j] = Called("UpdateStatus", bhArgs.Node, TRUE)
            /\ \A j \in 1..(i - 1) : bhLog[j].ok)
    /\ [](bhPc = "returned" => (bhResult.Error # "" <=> FailedCalls # {}))
    /\ [][bound' # bound =>
            (/\ bhPc = "bind"
             /\ bound' = [bound EXCEPT ![bhArgs.PodName] = bhArgs.Node]
             /\ ~lvStore[bhArgs.Node].nil
             /\ bhNames \subseteq lvStore[bhArgs.Node].keys)]_vars

\* The second call returned: its status update succeeded and pre-allocated a
\* claim on the node, and then the Bind API call failed.
C24_Witness ==
    /\ bhPc = "returned" /\ bhCalls = 2
    /\ Len(bhLog) = 4 /\ ~bhLog[4].ok /\ bhLog[4].call = "Bind"
    /\ bhResult.Error # ""
    /\ bhNames # {} /\ bhNames \subseteq lvStore[bhArgs.Node].keys
    /\ bound[bhArgs.PodName] = NoNode

==========================================================================
